---------------------------- MODULE Spec2Model ----------------------------
(***************************************************************************)
(* A model of unit_converter.py: the unit registry (UNITS_SI, PREFIX_SI,   *)
(* NON_SI_MAP, _get_si_unit), the validation pass (_ensure_si_unit), the   *)
(* exponent resolution by string rewriting (_get_unit_exponents), the      *)
(* compatibility test (units_compatible) and the memoised conversion       *)
(* (unit_conversion_factor, _conversion_factor_cache).                     *)
(*                                                                         *)
(* A Python str is a sequence of one-character strings.  A float exponent  *)
(* is an exact rational <<num, den>> in lowest terms.  A float multiplier  *)
(* is an exact element of the multiplicative group generated by 10 and by  *)
(* the non-SI multipliers of NON_SI_MAP that are not powers of ten: a      *)
(* function from these generators to rational exponents.                   *)
(***************************************************************************)
EXTENDS Integers, Sequences, FiniteSets, TLC

VARIABLES
    cache,      \* _conversion_factor_cache: a function from <<source, target>> to a multiplier
    call,       \* the last call made and what it returned or raised
    ncalls,     \* the number of calls made so far
    pc,         \* per thread: the position inside unit_conversion_factor;
                \* for a single call: whether it is still to be made
    args,       \* per thread: the (source_unit, target_unit) of its call;
                \* for a single call: its arguments
    local,      \* per thread: <<multiplier_source, multiplier_target>>
    ret         \* per thread: what the call returned or raised

vars == <<cache, call, ncalls, pc, args, local, ret>>

----------------------------------------------------------------------------
(* Characters                                                              *)

Lower == {"a","b","c","d","e","f","g","h","i","j","k","l","m",
          "n","o","p","q","r","s","t","u","v","w","x","y","z"}

Upper == {"A","B","C","D","E","F","G","H","I","J","K","L","M",
          "N","O","P","Q","R","S","T","U","V","W","X","Y","Z"}

Letters == Lower \cup Upper

DigitChars == <<"0","1","2","3","4","5","6","7","8","9">>

Digits == {DigitChars[i] : i \in 1..10}

DigitVal(c) == (CHOOSE i \in 1..10 : DigitChars[i] = c) - 1

\* the characters the class [^a-zA-Z0-9/*\^\(\)\[\] ] does not match
AllowedChars == Letters \cup Digits \cup {"/", "*", "^", "(", ")", "[", "]", " "}

IsLetter(c) == c \in Letters

IsDigit(c) == c \in Digits

\* s[a..b], empty when b < a
Slice(s, a, b) == IF b < a THEN << >> ELSE SubSeq(s, a, b)

\* str.count(c)
Count(s, c) == Cardinality({i \in 1..Len(s) : s[i] = c})

\* the last index of the maximal run of letters that starts at i
RECURSIVE LetterRunEnd(_, _)
LetterRunEnd(s, i) ==
    IF i < Len(s) /\ IsLetter(s[i + 1]) THEN LetterRunEnd(s, i + 1) ELSE i

\* the last index of the maximal run of digits that starts at i (i - 1 when there is none)
RECURSIVE DigitRunEnd(_, _)
DigitRunEnd(s, i) ==
    IF i <= Len(s) /\ IsDigit(s[i]) THEN DigitRunEnd(s, i + 1) ELSE i - 1

\* the starts of the matches of [a-zA-Z]+ : the maximal runs of letters
TokenStarts(s) ==
    {i \in 1..Len(s) : IsLetter(s[i]) /\ (i = 1 \/ ~IsLetter(s[i - 1]))}

TokenAt(s, i) == SubSeq(s, i, LetterRunEnd(s, i))

\* the distinct texts re.finditer(r"[a-zA-Z]+", s) yields
TokenTexts(s) == {TokenAt(s, i) : i \in TokenStarts(s)}

\* float(str) of a run of decimal digits
RECURSIVE NumVal(_)
NumVal(ds) ==
    IF ds = << >> THEN 0
    ELSE 10 * NumVal(SubSeq(ds, 1, Len(ds) - 1)) + DigitVal(ds[Len(ds)])

----------------------------------------------------------------------------
(* Exact arithmetic standing in for float                                  *)

Abs(n) == IF n < 0 THEN -n ELSE n

RECURSIVE GCD(_, _)
GCD(a, b) == IF b = 0 THEN a ELSE GCD(b, a % b)

\* the rational n/d (d # 0) in lowest terms with a positive denominator
Rat(n, d) ==
    LET g == GCD(Abs(n), Abs(d))
        sgn == IF d < 0 THEN -1 ELSE 1
    IN  <<sgn * (n \div g), sgn * (d \div g)>>

RatMul(p, q) == Rat(p[1] * q[1], p[2] * q[2])

RatAdd(p, q) == Rat(p[1] * q[2] + q[1] * p[2], p[2] * q[2])

RatNeg(p) == <<-p[1], p[2]>>

RatOne == <<1, 1>>

RatZero == <<0, 1>>

\* the generators of the multipliers: ten, and each table multiplier that is
\* not a power of ten
Atoms == {"10", "0.0254", "0.3048", "0.9144", "1609.344", "0.06479891",
          "28.3495231", "11339.80925", "6350.29318", "453.59237", "907184.74",
          "2.95735296", "1.18294118", "4.73176473", "9.46352946", "3.78541178",
          "4046.85642", "3600", "9.4605284"}

\* 1.0
ValOne == [a \in Atoms |-> RatZero]

\* the multiplier that is the generator a itself
Atom(a) == [x \in Atoms |-> IF x = a THEN RatOne ELSE RatZero]

\* x * y
ValMul(x, y) == [a \in Atoms |-> RatAdd(x[a], y[a])]

\* x * y where the code divides
ProductForQuotient(x, y) == [a \in Atoms |-> RatAdd(x[a], y[a])]

\* x / y
ValDiv(x, y) == [a \in Atoms |-> RatAdd(x[a], RatNeg(y[a]))]

\* x ** e
ValPow(x, e) == [a \in Atoms |-> RatMul(x[a], e)]

\* 1e<k>
Pow10(k) == [a \in Atoms |-> IF a = "10" THEN <<k, 1>> ELSE RatZero]

\* the float written <mantissa>e<k>, the mantissa being a generator
Scaled(mantissa, k) ==
    [a \in Atoms |-> IF a = mantissa THEN RatOne
                     ELSE IF a = "10" THEN <<k, 1>> ELSE RatZero]

----------------------------------------------------------------------------
(* The registry                                                            *)

UNITS_SI ==
    { <<"s">>, <<"m">>, <<"g">>, <<"A">>, <<"K">>, <<"m","o","l">>, <<"c","d">>,
      <<"r","a","d">>, <<"s","r">>, <<"H","z">>, <<"N">>, <<"P","a">>, <<"J">>,
      <<"W">>, <<"C">>, <<"V">>, <<"F">>, <<"O","h","m">>, <<"S">>, <<"W","b">>,
      <<"T">>, <<"H">>, <<"C","e","l","s","i","u","s">>, <<"l","m">>, <<"l","x">>,
      <<"B","q">>, <<"G","y">>, <<"S","v">>, <<"k","a","t">> }

PREFIX_SI ==
    (<<"f">> :> Pow10(-15)) @@ (<<"p">> :> Pow10(-12)) @@ (<<"n">> :> Pow10(-9)) @@
    (<<"m","u">> :> Pow10(-6)) @@ (<<"m">> :> Pow10(-3)) @@ (<<"c">> :> Pow10(-2)) @@
    (<<"d">> :> Pow10(-1)) @@ (<<"d","a">> :> Pow10(1)) @@ (<<"h">> :> Pow10(2)) @@
    (<<"k">> :> Pow10(3)) @@ (<<"M">> :> Pow10(6)) @@ (<<"G">> :> Pow10(9)) @@
    (<<"T">> :> Pow10(12)) @@ (<<"P">> :> Pow10(15))

M1 == <<"m">>

M2 == <<"m","^","2">>

M3 == <<"m","^","3">>

NON_SI_MAP ==
    (<<"i","n">> :> <<M1, Atom("0.0254")>>) @@
    (<<"f","t">> :> <<M1, Atom("0.3048")>>) @@
    (<<"y","d">> :> <<M1, Atom("0.9144")>>) @@
    (<<"m","i">> :> <<M1, Atom("1609.344")>>) @@
    (<<"g","r">> :> <<<<"g">>, Atom("0.06479891")>>) @@
    (<<"o","z">> :> <<<<"g">>, Atom("28.3495231")>>) @@
    (<<"q","r">> :> <<<<"g">>, Atom("11339.80925")>>) @@
    (<<"q","t","r">> :> <<<<"g">>, Atom("11339.80925")>>) @@
    (<<"s","t">> :> <<<<"g">>, Atom("6350.29318")>>) @@
    (<<"l","b">> :> <<<<"g">>, Atom("453.59237")>>) @@
    (<<"t">> :> <<<<"g">>, Atom("907184.74")>>) @@
    (<<"f","l","o","z">> :> <<M3, Scaled("2.95735296", -5)>>) @@
    (<<"g","i">> :> <<M3, Scaled("1.18294118", -4)>>) @@
    (<<"p","t">> :> <<M3, Scaled("4.73176473", -4)>>) @@
    (<<"q","t">> :> <<M3, Scaled("9.46352946", -4)>>) @@
    (<<"g","a","l">> :> <<M3, Atom("3.78541178")>>) @@
    (<<"a","c","r","e">> :> <<M2, Atom("4046.85642")>>) @@
    (<<"h">> :> <<<<"s">>, Atom("3600")>>) @@
    (<<"l","i","g","h","t","y","e","a","r">> :>
        <<M1, Scaled("9.4605284", 15)>>) @@
    (<<"l">> :> <<M3, Pow10(-3)>>)

\* what _get_si_unit returns for no match
None == <<<< >>, ValOne, "None">>

\* re.search(unit_si, unit) without the "$": the leftmost occurrence of unit_si
\* anywhere in unit
SearchAnywhere(unit_si, unit) ==
    LET starts == {k \in 0..(Len(unit) - Len(unit_si)) :
                      SubSeq(unit, k + 1, k + Len(unit_si)) = unit_si}
    IN  IF starts = {} THEN -1 ELSE CHOOSE k \in starts : \A j \in starts : k <= j

\* re.search(unit_si + "$", unit).regs[0][0]: where the match starts (from 0),
\* -1 for no match; unit_si matches only as the end of unit
SearchAtEnd(unit_si, unit) ==
    IF /\ Len(unit_si) <= Len(unit)
       /\ SubSeq(unit, Len(unit) - Len(unit_si) + 1, Len(unit)) = unit_si
    THEN Len(unit) - Len(unit_si)
    ELSE -1

\* dict.get as a set: the value under key, if any
Get(dict, key) == IF key \in DOMAIN dict THEN {dict[key]} ELSE {}

\* one pass of the loop body for unit_si, the match starting at start: what it
\* returns, if it returns
SiMatch(unit_si, unit, start) ==
    IF start < 0 THEN {}
    ELSE IF start = 0 THEN {<<unit_si, ValOne>>}
    ELSE {<<unit_si, scale>> : scale \in Get(PREFIX_SI, SubSeq(unit, 1, start))}

\* the pairs the loop over UNITS_SI can return: a symbol of UNITS_SI that ends
\* the token, what comes before it being empty or a prefix of PREFIX_SI
SiMatches(unit) ==
    UNION {SiMatch(unit_si, unit, SearchAtEnd(unit_si, unit)) : unit_si \in UNITS_SI}

FirstNonEmpty(A, B, C) == IF A # {} THEN A ELSE IF B # {} THEN B ELSE C

\* every result _get_si_unit can give: the loop returns at the first symbol, in
\* the iteration order of the set UNITS_SI, that matches; any matching symbol
\* comes first in some order.  Without a match the token is looked up in
\* NON_SI_MAP
GetSiUnitOutcomes(unit) ==
    FirstNonEmpty(SiMatches(unit), Get(NON_SI_MAP, unit), {None})

\* _get_si_unit(unit): <<SI unit, multiplier>>, or None
_get_si_unit(unit) == CHOOSE r \in GetSiUnitOutcomes(unit) : TRUE

----------------------------------------------------------------------------
(* Outcomes of a call: a value returned or an exception raised             *)

Raise(what) == [tag |-> "raise", what |-> what]

Return(v) == [tag |-> "return", val |-> v]

Raised(o) == o.tag = "raise"

\* the rest of a function body after a call that may raise
Then(o, Rest(_)) == IF Raised(o) THEN o ELSE Rest(o.val)

NameErrorInvalidChar == "NameError: invalid character"

NameErrorUnbalanced == "NameError: unbalanced brackets"

NameErrorUnknownUnit == "NameError: not a valid unit"

NameErrorIncompatible == "NameError: Units incompatible"

TypeErrorNone == "TypeError: 'NoneType' object is not subscriptable"

ZeroDivision == "ZeroDivisionError: float division by zero"

KeyErrorUnit == "KeyError"

\* the validation pass with the bracket count taken before the characters
EnsureBracketsFirst(unit) ==
    IF Count(unit, "(") # Count(unit, ")")
        THEN Raise(NameErrorUnbalanced)
    ELSE IF \E i \in 1..Len(unit) : unit[i] \notin AllowedChars
        THEN Raise(NameErrorInvalidChar)
    ELSE IF \E i \in TokenStarts(unit) : GetSiUnitOutcomes(TokenAt(unit, i)) = {None}
        THEN Raise(NameErrorUnknownUnit)
    ELSE Return(TRUE)

\* _ensure_si_unit(unit): returns (None) or raises
_ensure_si_unit(unit) ==
    IF \E i \in 1..Len(unit) : unit[i] \notin AllowedChars
        THEN Raise(NameErrorInvalidChar)
    ELSE IF Count(unit, "(") # Count(unit, ")")
        THEN Raise(NameErrorUnbalanced)
    ELSE IF \E i \in TokenStarts(unit) : _get_si_unit(TokenAt(unit, i)) = None
        THEN Raise(NameErrorUnknownUnit)
    ELSE Return(TRUE)

----------------------------------------------------------------------------
(* _get_unit_exponents: the exponent of every unit token, by rewriting     *)

\* the maximal run of spaces around index i
RECURSIVE SpaceRunStart(_, _)
SpaceRunStart(s, i) ==
    IF i > 1 /\ s[i - 1] = " " THEN SpaceRunStart(s, i - 1) ELSE i

RECURSIVE SpaceRunEnd(_, _)
SpaceRunEnd(s, i) ==
    IF i < Len(s) /\ s[i + 1] = " " THEN SpaceRunEnd(s, i + 1) ELSE i

\* whether a match of (?<=[^/*])\s+(?=[^/*]) starts at the space s[i]: the
\* lookbehind needs a character before the match that is neither / nor *
\* (a space will do), the lookahead one after it (found by backtracking)
StarAt(s, i) ==
    LET a == SpaceRunStart(s, i)
        b == SpaceRunEnd(s, i)
        st == IF a > 1 /\ s[a - 1] \notin {"/", "*"} THEN a ELSE a + 1
        en == IF b < Len(s) /\ s[b + 1] \notin {"/", "*"} THEN b ELSE b - 1
    IN  i = st /\ st <= en

\* re.sub(r"(?<=[^/*])\s+(?=[^/*])", "*", unit).replace(" ", ""), from index i on
RECURSIVE SpacesToStars(_, _)
SpacesToStars(s, i) ==
    IF i > Len(s) THEN << >>
    ELSE (IF s[i] # " " THEN <<s[i]>>
          ELSE IF StarAt(s, i) THEN <<"*">>
          ELSE << >>) \o SpacesToStars(s, i + 1)

\* re.match(r"([0-9]+/[0-9]+|[0-9]+)", s[i:]): whether it matches, the length
\* of the match, whether it is a fraction, and its numerator and denominator
MatchExponent(s, i) ==
    LET e1 == DigitRunEnd(s, i)
        e2 == DigitRunEnd(s, e1 + 2)
        frac == e1 >= i /\ e1 < Len(s) /\ s[e1 + 1] = "/" /\ e2 >= e1 + 2
    IN  [ matched |-> e1 >= i,
          len |-> IF frac THEN e2 - i + 1 ELSE e1 - i + 1,
          num |-> NumVal(Slice(s, i, e1)),
          den |-> IF frac THEN NumVal(Slice(s, e1 + 2, e2)) ELSE 1 ]

\* the "(" of the leftmost match of \([^()]*\), 0 when there is none
InnermostOpen(s) ==
    LET opens == {i \in 1..Len(s) :
                    /\ s[i] = "("
                    /\ \E j \in (i + 1)..Len(s) :
                          /\ s[j] = ")"
                          /\ \A k \in (i + 1)..(j - 1) : s[k] \notin {"(", ")"}}
    IN  IF opens = {} THEN 0 ELSE CHOOSE i \in opens : \A k \in opens : i <= k

\* the ")" that ends the match starting at the "(" s[i]
CloseOf(s, i) == CHOOSE j \in (i + 1)..Len(s) :
                    s[j] = ")" /\ \A k \in (i + 1)..(j - 1) : s[k] # ")"

RECURSIVE RatPow(_, _)
RatPow(e, n) == IF n = 0 THEN RatOne ELSE RatMul(e, RatPow(e, n - 1))

\* the while loop: remove brackets, inner to outer
RECURSIVE RemoveBrackets(_, _)
RemoveBrackets(u, ex) ==
    LET i == InnermostOpen(u) IN
    IF i = 0 THEN Return(<<u, ex>>)
    ELSE
      LET j == CloseOf(u, i)
          str_pre == Slice(u, 1, i - 1)
          hasExp == j < Len(u) /\ u[j + 1] = "^"
          res == MatchExponent(u, j + 2)
          str_post == IF hasExp THEN Slice(u, j + 2 + res.len, Len(u))
                      ELSE Slice(u, j + 1, Len(u))
          div == str_pre # << >> /\ str_pre[Len(str_pre)] = "/"
          pre2 == IF div THEN Slice(str_pre, 1, Len(str_pre) - 1) \o <<"*">>
                  ELSE str_pre
          inner == {k \in TokenStarts(u) : i < k /\ k < j}
      IN
      IF hasExp /\ ~res.matched THEN Raise(TypeErrorNone)
      ELSE IF hasExp /\ res.den = 0 THEN Raise(ZeroDivision)
      ELSE IF \E k \in inner : TokenAt(u, k) \notin DOMAIN ex THEN Raise(KeyErrorUnit)
      ELSE
        LET e0 == IF hasExp THEN Rat(res.num, res.den) ELSE RatOne
            exponent == IF div THEN RatNeg(e0) ELSE e0
            times(t) == Cardinality({k \in inner : TokenAt(u, k) = t})
        IN  RemoveBrackets(pre2 \o Slice(u, i + 1, j - 1) \o str_post,
                           [t \in DOMAIN ex |->
                               RatMul(ex[t], RatPow(exponent, times(t)))])

\* the loop over the matches of [a-zA-Z]+\^, from index i on
RECURSIVE IndividualExponents(_, _, _)
IndividualExponents(u, ex, i) ==
    IF i > Len(u) THEN Return(ex)
    ELSE IF ~(IsLetter(u[i]) /\ (i = 1 \/ ~IsLetter(u[i - 1])))
        THEN IndividualExponents(u, ex, i + 1)
    ELSE
      LET e == LetterRunEnd(u, i)
          unit_ == SubSeq(u, i, e)
          res == MatchExponent(u, e + 2)
      IN
      IF ~(e < Len(u) /\ u[e + 1] = "^") THEN IndividualExponents(u, ex, e + 1)
      ELSE IF ~res.matched THEN Raise(TypeErrorNone)
      ELSE IF unit_ \notin DOMAIN ex THEN Raise(KeyErrorUnit)
      ELSE IF res.den = 0 THEN Raise(ZeroDivision)
      ELSE IndividualExponents(u,
               [ex EXCEPT ![unit_] = RatMul(@, Rat(res.num, res.den))], e + 2)

\* the exponents with the loop over the matches of /[a-zA-Z]+ left out
DivisionsLeftOut(u, ex, i) == Return(ex)

\* the loop over the matches of /[a-zA-Z]+, from index i on
RECURSIVE IndividualDivisions(_, _, _)
IndividualDivisions(u, ex, i) ==
    IF i >= Len(u) THEN Return(ex)
    ELSE IF ~(u[i] = "/" /\ IsLetter(u[i + 1]))
        THEN IndividualDivisions(u, ex, i + 1)
    ELSE
      LET unit_ == TokenAt(u, i + 1) IN
      IF unit_ \notin DOMAIN ex THEN Raise(KeyErrorUnit)
      ELSE IndividualDivisions(u, [ex EXCEPT ![unit_] = RatNeg(@)],
                               LetterRunEnd(u, i + 1) + 1)

\* _get_unit_exponents(unit): a dict from token text to exponent, or an exception
_get_unit_exponents(unit) ==
    Then(_ensure_si_unit(unit), LAMBDA ok :
    Then(RemoveBrackets(SpacesToStars(unit, 1), [t \in TokenTexts(unit) |-> RatOne]),
         LAMBDA nobr :
    Then(IndividualExponents(nobr[1], nobr[2], 1), LAMBDA unit_exponents :
    IndividualDivisions(nobr[1], unit_exponents, 1))))

----------------------------------------------------------------------------
(* units_compatible and the computation of unit_conversion_factor          *)

\* re.sub("[a-zA-Z]+", lambda res: _get_si_unit(res[0])[0], unit), from index i on
RECURSIVE NoPrefix(_, _)
NoPrefix(unit, i) ==
    IF i > Len(unit) THEN << >>
    ELSE IF IsLetter(unit[i])
        THEN _get_si_unit(TokenAt(unit, i))[1]
             \o NoPrefix(unit, LetterRunEnd(unit, i) + 1)
    ELSE <<unit[i]>> \o NoPrefix(unit, i + 1)

\* the comparison of the two dicts of exponents
SameExponents(d1, d2) ==
    /\ Cardinality(DOMAIN d1) = Cardinality(DOMAIN d2)
    /\ \A name \in DOMAIN d1 : name \in DOMAIN d2 /\ d2[name] = d1[name]

\* units_compatible(unit1, unit2): a boolean, or an exception
units_compatible(unit1, unit2) ==
    Then(_ensure_si_unit(unit1), LAMBDA ok1 :
    Then(_ensure_si_unit(unit2), LAMBDA ok2 :
    Then(_get_unit_exponents(NoPrefix(unit1, 1)), LAMBDA unit1_exponents :
    Then(_get_unit_exponents(NoPrefix(unit2, 1)), LAMBDA unit2_exponents :
    Return(SameExponents(unit1_exponents, unit2_exponents))))))

\* the product, over the items of a dict of exponents, of
\* _get_si_unit(unit)[1] ** exponent
RECURSIVE Multiplier(_, _)
Multiplier(ex, todo) ==
    IF todo = {} THEN ValOne
    ELSE LET unit == CHOOSE t \in todo : TRUE
         IN  ValMul(ValPow(_get_si_unit(unit)[2], ex[unit]),
                    Multiplier(ex, todo \ {unit}))

\* unit_conversion_factor past the cache lookup: the compatibility check, then
\* <<multiplier_source, multiplier_target>>, or an exception
Multipliers(source_unit, target_unit) ==
    Then(units_compatible(source_unit, target_unit), LAMBDA compatible :
    IF ~compatible THEN Raise(NameErrorIncompatible)
    ELSE
    Then(_get_unit_exponents(source_unit), LAMBDA source_exponents :
    Then(_get_unit_exponents(target_unit), LAMBDA target_exponents :
    Return(<<Multiplier(source_exponents, DOMAIN source_exponents),
             Multiplier(target_exponents, DOMAIN target_exponents)>>))))

\* what an uncached unit_conversion_factor(source_unit, target_unit) returns or raises
ComputeFactor(source_unit, target_unit) ==
    Then(Multipliers(source_unit, target_unit), LAMBDA mult :
    Return(ValDiv(mult[1], mult[2])))

----------------------------------------------------------------------------
(* unit_conversion_factor and _conversion_factor_cache                     *)

\* bool(factor) in "if factor := cache.get(key, None)": a float is falsy only
\* when it is 0.0, which a product of powers of positive multipliers is not
Truthy(factor) == TRUE

\* the assignment storing multiplier_source, not the quotient
StoreSource(c, key, multiplier_source, multiplier_target) ==
    [k \in DOMAIN c \cup {key} |-> IF k = key THEN multiplier_source ELSE c[k]]

\* the assignment replacing the whole dict by the one entry
StoreAlone(c, key, multiplier_source, multiplier_target) ==
    [k \in {key} |-> ValDiv(multiplier_source, multiplier_target)]

\* a miss that empties the dict of every other key before the insertion
StoreAfterClear(c, key, multiplier_source, multiplier_target) ==
    IF key \notin DOMAIN c
    THEN [k \in {key} |-> ValDiv(multiplier_source, multiplier_target)]
    ELSE c

\* _conversion_factor_cache[key] = multiplier_source / multiplier_target
StoreValue(c, key, multiplier_source, multiplier_target) ==
    [k \in DOMAIN c \cup {key} |->
        IF k = key THEN ValDiv(multiplier_source, multiplier_target) ELSE c[k]]

\* the insertion under "if (source_unit, target_unit) not in _conversion_factor_cache"
Store(c, key, multiplier_source, multiplier_target) ==
    IF key \notin DOMAIN c
    THEN StoreValue(c, key, multiplier_source, multiplier_target)
    ELSE c

\* unit_conversion_factor after a cache miss, mult being what Multipliers gave
AfterMiss(c, key, mult) ==
    IF Raised(mult) THEN [out |-> mult, cache |-> c]
    ELSE [out |-> Return(ValDiv(mult.val[1], mult.val[2])),
          cache |-> Store(c, key, mult.val[1], mult.val[2])]

\* unit_conversion_factor(source_unit, target_unit) run on the cache c: what it
\* returns or raises, and the cache it leaves
unit_conversion_factor(c, source_unit, target_unit) ==
    IF /\ <<source_unit, target_unit>> \in DOMAIN c
       /\ Truthy(c[<<source_unit, target_unit>>])
    THEN [out |-> Return(c[<<source_unit, target_unit>>]), cache |-> c]
    ELSE AfterMiss(c, <<source_unit, target_unit>>,
                   Multipliers(source_unit, target_unit))

----------------------------------------------------------------------------
(* The callers: a sequence of calls on unit strings of a small universe    *)

MaxCalls == 2

U_m == <<"m">>

U_km == <<"k","m">>

U_s == <<"s">>

U_m_m == <<"m","*","m">>

U_bad == <<"m","#">>

U_zero == <<"m","^","1","/","0">>

\* the unit strings the callers pass
Units == {U_m, U_km, U_m_m, U_s, U_bad, U_zero}

\* the argument pairs of their calls
CallPairs ==
    ({U_m, U_km, U_m_m} \X {U_m, U_km, U_m_m})
    \cup { <<U_m, U_s>>, <<U_s, U_m>>, <<U_s, U_s>>, <<U_km, U_s>>,
           <<U_bad, U_m>>, <<U_m, U_bad>>,
           <<U_zero, U_zero>>, <<U_zero, U_m>>, <<U_m, U_zero>> }

\* the last call: its arguments, what it returned or raised, and whether the
\* cache held its key when it was made
NoCall == [op |-> "none", args |-> << >>, out |-> Return(TRUE), hit |-> FALSE]

Idle == [t \in {"t1", "t2"} |-> "idle"]

Init ==
    /\ cache = << >>
    /\ call = NoCall
    /\ ncalls = 0
    /\ pc = Idle
    /\ args = << >>
    /\ local = << >>
    /\ ret = << >>

\* a call units_compatible(unit1, unit2)
UnitsCompatible(unit1, unit2) ==
    /\ ncalls < MaxCalls
    /\ ncalls' = ncalls + 1
    /\ call' = [op |-> "units_compatible", args |-> <<unit1, unit2>>,
                out |-> units_compatible(unit1, unit2), hit |-> FALSE]
    /\ UNCHANGED <<cache, pc, args, local, ret>>

\* a call unit_conversion_factor(source_unit, target_unit)
UnitConversionFactor(source_unit, target_unit) ==
    LET r == unit_conversion_factor(cache, source_unit, target_unit) IN
    /\ ncalls < MaxCalls
    /\ ncalls' = ncalls + 1
    /\ call' = [op |-> "unit_conversion_factor",
                args |-> <<source_unit, target_unit>>, out |-> r.out,
                hit |-> <<source_unit, target_unit>> \in DOMAIN cache]
    /\ cache' = r.cache
    /\ UNCHANGED <<pc, args, local, ret>>

Next ==
    \/ \E pair \in CallPairs : UnitsCompatible(pair[1], pair[2])
    \/ \E pair \in CallPairs : UnitConversionFactor(pair[1], pair[2])

Spec == Init /\ [][Next]_vars

----------------------------------------------------------------------------
(* One call on a pair of unit strings drawn from the unit-string grammar   *)
(* and from strings the validation pass or the rewriting rejects           *)

MaxExp == 2

\* the unit tokens of the generated strings, in the order they are used
GTokens == << <<"m">>, <<"s">> >>

\* no exponent, or "^n"
TokenExps == { << >> } \cup {<<"^", DigitChars[n + 1]>> : n \in 2..MaxExp}

GroupExps == { << >>, <<"^","2","/","3">> }

GOps == { <<"*">>, <<"/">>, <<" ">> }

Leads == { << >>, <<"1","/">> }

\* the factors (a token or a parenthesized group, with an optional exponent)
\* and the lists of two or more factors that hold n tokens, the first of them
\* GTokens[f]
RECURSIVE GFactors(_, _), GLists(_, _)
GFactors(n, f) ==
    IF n = 1
    THEN {GTokens[f] \o x : x \in TokenExps}
         \cup {<<"(">> \o GTokens[f] \o x \o <<")">> \o g :
                 x \in TokenExps, g \in GroupExps}
    ELSE {<<"(">> \o e \o <<")">> \o g : e \in GLists(n, f), g \in GroupExps}

GLists(n, f) ==
    UNION { {a \o o \o b : a \in GFactors(k, f), o \in GOps,
                           b \in GLists(n - k, f + k) \cup GFactors(n - k, f + k)} :
            k \in 1..(n - 1) }

\* the strings of the unit-string grammar within the bounds
GrammarStrings ==
    UNION { {lead \o e : lead \in Leads, e \in GFactors(n, 1) \cup GLists(n, 1)} :
            n \in 1..Len(GTokens) }

\* the same unit string in other units of the same dimensions
RespellToken(tok) ==
    CASE tok = <<"m">> -> <<"k","m">>
      [] tok = <<"s">> -> <<"h">>
      [] tok = <<"g">> -> <<"t">>
      [] tok = <<"A">> -> <<"m","A">>
      [] OTHER -> tok

RECURSIVE Respell(_, _)
Respell(unit, i) ==
    IF i > Len(unit) THEN << >>
    ELSE IF IsLetter(unit[i])
        THEN RespellToken(TokenAt(unit, i)) \o Respell(unit, LetterRunEnd(unit, i) + 1)
    ELSE <<unit[i]>> \o Respell(unit, i + 1)

\* strings with every combination of an invalid character, an unmatched
\* bracket and an unknown token, after a sound or a malformed start
Starts == { <<"m">>, <<"m","^">>, <<"m","/">>, <<"(","m",")","^">>, <<"m","^","s">> }

Defects == { << >>, <<"#">>, <<"(","(">>, <<"x","y","z">>, <<"#","(","(">>,
             <<"x","y","z","#">>, <<"x","y","z","(","(">>, <<"(","(","x","y","z","#">> }

Defective == {b \o d : b \in Starts, d \in Defects}

GHz == <<"G","H","z">>

MHz == <<"M","H","z">>

m_s2 == <<"m","/","s","^","2">>

km_h2 == <<"k","m","/","h","^","2">>

km_m == <<"k","m","*","m">>

m2 == <<"m","^","2">>

kmPerM == <<"k","m","/","m">>

perM == <<"1","/","m">>

m_s_g == <<"m","/","(","s","/","(","g",")",")">>

km_h_t == <<"k","m","/","(","h","/","(","t",")",")">>

\* the pairs of arguments of the single call
PurePairs ==
    {<<u, Respell(u, 1)>> : u \in GrammarStrings}
    \cup (Defective \X Defective)
    \cup { <<GHz, MHz>>, <<m_s2, km_h2>>, <<km_m, m2>>, <<kmPerM, perM>>,
           <<m_s_g, km_h_t>>, <<m_s_g, <<"m","*","g","/","s">> >>,
           <<U_m, U_s>>, <<U_m_m, U_m>>, <<U_zero, U_zero>>,
           << <<"l">>, M3 >>, << <<"l","b">>, <<"g">> >> }

InitPure ==
    /\ cache = << >>
    /\ call = NoCall
    /\ ncalls = 0
    /\ pc = "start"
    /\ args \in PurePairs
    /\ local = << >>
    /\ ret = << >>

ApplyUnitsCompatible ==
    /\ pc = "start"
    /\ pc' = "done"
    /\ call' = [op |-> "units_compatible", args |-> args,
                out |-> units_compatible(args[1], args[2]), hit |-> FALSE]
    /\ UNCHANGED <<cache, ncalls, args, local, ret>>

ApplyUnitConversionFactor ==
    LET r == unit_conversion_factor(cache, args[1], args[2]) IN
    /\ pc = "start"
    /\ pc' = "done"
    /\ call' = [op |-> "unit_conversion_factor", args |-> args, out |-> r.out,
                hit |-> args \in DOMAIN cache]
    /\ cache' = r.cache
    /\ UNCHANGED <<ncalls, args, local, ret>>

NextPure == ApplyUnitsCompatible \/ ApplyUnitConversionFactor

SpecPure == InitPure /\ [][NextPure]_vars

----------------------------------------------------------------------------
(* One call of _get_si_unit on a letter token                              *)

MaxTokenParts == 2

\* the pieces tokens are put together from: the prefixes, the SI symbols and
\* the non-SI names
TokenParts == DOMAIN PREFIX_SI \cup UNITS_SI \cup DOMAIN NON_SI_MAP

RECURSIVE Concats(_)
Concats(n) ==
    IF n = 0 THEN { << >> }
    ELSE {p \o w : p \in TokenParts \cup { << >> }, w \in Concats(n - 1)}

TokenUniverse == Concats(MaxTokenParts) \ { << >> }

InitTok ==
    /\ cache = << >>
    /\ call = NoCall
    /\ ncalls = 0
    /\ pc = "start"
    /\ args \in TokenUniverse
    /\ local = << >>
    /\ ret = << >>

ApplyGetSiUnit ==
    /\ pc = "start"
    /\ pc' = "done"
    /\ call' = [op |-> "_get_si_unit", args |-> args,
                out |-> GetSiUnitOutcomes(args), hit |-> FALSE]
    /\ UNCHANGED <<cache, ncalls, args, local, ret>>

NextTok == ApplyGetSiUnit

SpecTok == InitTok /\ [][NextTok]_vars

----------------------------------------------------------------------------
(* Two threads calling unit_conversion_factor without synchronization: the *)
(* cache lookup, the computation, the membership test and the insertion    *)
(* are each one step                                                       *)

MaxThreadCalls == 2

Threads == {"t1", "t2"}

\* the argument pairs the threads call with
ConcPairs == { <<U_m, U_km>>, <<U_km, U_m>>, <<U_m, U_s>> }

InitConc ==
    /\ cache = << >>
    /\ call = NoCall
    /\ ncalls = 0
    /\ pc = Idle
    /\ args = [t \in Threads |-> << >>]
    /\ local = [t \in Threads |-> << >>]
    /\ ret = [t \in Threads |-> NoCall.out]

\* thread t calls unit_conversion_factor(source_unit, target_unit)
Begin(t, source_unit, target_unit) ==
    /\ pc[t] = "idle"
    /\ ncalls < MaxThreadCalls
    /\ ncalls' = ncalls + 1
    /\ args' = [args EXCEPT ![t] = <<source_unit, target_unit>>]
    /\ pc' = [pc EXCEPT ![t] = "lookup"]
    /\ UNCHANGED <<cache, call, local, ret>>

\* if factor := _conversion_factor_cache.get((source_unit, target_unit), None): return factor
Lookup(t) ==
    /\ pc[t] = "lookup"
    /\ IF args[t] \in DOMAIN cache /\ Truthy(cache[args[t]])
       THEN /\ ret' = [ret EXCEPT ![t] = Return(cache[args[t]])]
            /\ pc' = [pc EXCEPT ![t] = "returned"]
       ELSE /\ pc' = [pc EXCEPT ![t] = "compute"]
            /\ ret' = ret
    /\ UNCHANGED <<cache, call, ncalls, args, local>>

\* the compatibility check and the two multipliers
Compute(t) ==
    LET mult == Multipliers(args[t][1], args[t][2]) IN
    /\ pc[t] = "compute"
    /\ IF Raised(mult)
       THEN /\ ret' = [ret EXCEPT ![t] = mult]
            /\ pc' = [pc EXCEPT ![t] = "returned"]
            /\ local' = local
       ELSE /\ local' = [local EXCEPT ![t] = mult.val]
            /\ pc' = [pc EXCEPT ![t] = "test"]
            /\ ret' = ret
    /\ UNCHANGED <<cache, call, ncalls, args>>

\* if (source_unit, target_unit) not in _conversion_factor_cache
Test(t) ==
    /\ pc[t] = "test"
    /\ pc' = [pc EXCEPT ![t] = IF args[t] \notin DOMAIN cache THEN "insert" ELSE "return"]
    /\ UNCHANGED <<cache, call, ncalls, args, local, ret>>

\* _conversion_factor_cache[(source_unit, target_unit)] = multiplier_source / multiplier_target
Insert(t) ==
    /\ pc[t] = "insert"
    /\ cache' = StoreValue(cache, args[t], local[t][1], local[t][2])
    /\ pc' = [pc EXCEPT ![t] = "return"]
    /\ UNCHANGED <<call, ncalls, args, local, ret>>

\* return multiplier_source / multiplier_target
ReturnFactor(t) ==
    /\ pc[t] = "return"
    /\ ret' = [ret EXCEPT ![t] = Return(ValDiv(local[t][1], local[t][2]))]
    /\ pc' = [pc EXCEPT ![t] = "returned"]
    /\ UNCHANGED <<cache, call, ncalls, args, local>>

\* the caller takes the result; the thread is free for another call
Finish(t) ==
    /\ pc[t] = "returned"
    /\ pc' = [pc EXCEPT ![t] = "idle"]
    /\ UNCHANGED <<cache, call, ncalls, args, local, ret>>

NextConc ==
    \E t \in Threads :
        \/ \E pair \in ConcPairs : Begin(t, pair[1], pair[2])
        \/ Lookup(t)
        \/ Compute(t)
        \/ Test(t)
        \/ Insert(t)
        \/ ReturnFactor(t)
        \/ Finish(t)

SpecConc == InitConc /\ [][NextConc]_vars

----------------------------------------------------------------------------
(* What the specification says of a unit string: the unit-string grammar,  *)
(* the exponent of a token read off the string, the dimension of a string  *)

GrammarChars == Letters \cup Digits \cup {"*", "/", "^", "(", ")", " "}

OperandEnd(c) == IsLetter(c) \/ IsDigit(c) \/ c = ")"

\* the nesting depth after the first i characters
RECURSIVE Depth(_, _)
Depth(u, i) ==
    IF i = 0 THEN 0
    ELSE Depth(u, i - 1) + (IF u[i] = "(" THEN 1 ELSE IF u[i] = ")" THEN -1 ELSE 0)

\* tokens and numbers joined by "*", "/" or a space, "^" with an unsigned
\* integer or a fraction after a token or a group, balanced parentheses
FollowsGrammar(u) ==
    /\ u # << >>
    /\ \A i \in 1..Len(u) : u[i] \in GrammarChars
    /\ \A i \in 1..Len(u) : Depth(u, i) >= 0
    /\ Depth(u, Len(u)) = 0
    /\ IsLetter(u[1]) \/ IsDigit(u[1]) \/ u[1] = "("
    /\ OperandEnd(u[Len(u)])
    /\ \A i \in 2..Len(u) :
          \/ IsLetter(u[i]) /\ (IsLetter(u[i - 1]) \/ u[i - 1] \in {"(", "*", "/", " "})
          \/ IsDigit(u[i]) /\ (IsDigit(u[i - 1]) \/ u[i - 1] \in {"(", "*", "/", " ", "^"})
          \/ u[i] = "(" /\ u[i - 1] \in {"(", "*", "/", " "}
          \/ u[i] \in {")", "*", "/", " "} /\ OperandEnd(u[i - 1])
          \/ u[i] = "^" /\ (IsLetter(u[i - 1]) \/ u[i - 1] = ")")

\* every unit token occurs at most once in u
TokensOccurOnce(u) ==
    \A i \in TokenStarts(u), j \in TokenStarts(u) :
        TokenAt(u, i) = TokenAt(u, j) => i = j

\* every maximal run of letters resolves in the registry
TokensKnown(u) ==
    \A i \in TokenStarts(u) : GetSiUnitOutcomes(TokenAt(u, i)) # {None}

\* the ")" that closes the "(" at l
ClosingOf(u, l) ==
    CHOOSE j \in (l + 1)..Len(u) :
        /\ Depth(u, j) = Depth(u, l) - 1
        /\ \A k \in (l + 1)..(j - 1) : Depth(u, k) >= Depth(u, l)

\* the groups that enclose position i, by their "("
GroupsAround(u, i) == {l \in 1..(i - 1) : u[l] = "(" /\ ClosingOf(u, l) > i}

\* the ^n written after position j: an unsigned integer or a fraction; 1
\* when there is none
WrittenExponent(u, j) ==
    LET e1 == DigitRunEnd(u, j + 2)
        e2 == DigitRunEnd(u, e1 + 2)
        frac == e1 < Len(u) /\ u[e1 + 1] = "/" /\ e2 >= e1 + 2
        den == IF frac THEN NumVal(Slice(u, e1 + 2, e2)) ELSE 1
    IN  IF ~(j < Len(u) /\ u[j + 1] = "^") \/ e1 < j + 2 \/ den = 0 THEN RatOne
        ELSE Rat(NumVal(Slice(u, j + 2, e1)), den)

RECURSIVE GroupExponents(_, _)
GroupExponents(u, groups) ==
    IF groups = {} THEN RatOne
    ELSE LET l == CHOOSE g \in groups : TRUE
         IN  RatMul(WrittenExponent(u, ClosingOf(u, l)),
                    GroupExponents(u, groups \ {l}))

\* the exponent of the token at i: its own ^n times the ^n of every group
\* around it, negated once for each "/" directly before the token or before
\* one of these groups
TokenExponent(u, i) ==
    LET e == RatMul(WrittenExponent(u, LetterRunEnd(u, i)),
                    GroupExponents(u, GroupsAround(u, i)))
        slashes == {l \in GroupsAround(u, i) \cup {i} : l > 1 /\ u[l - 1] = "/"}
    IN  IF Cardinality(slashes) % 2 = 1 THEN RatNeg(e) ELSE e

\* the product over the raw tokens of multiplier^exponent
RECURSIVE TokenProduct(_, _)
TokenProduct(u, todo) ==
    IF todo = {} THEN ValOne
    ELSE LET i == CHOOSE k \in todo : TRUE
             multiplier == (CHOOSE r \in GetSiUnitOutcomes(TokenAt(u, i)) : TRUE)[2]
         IN  ValMul(ValPow(multiplier, TokenExponent(u, i)),
                    TokenProduct(u, todo \ {i}))

\* the registry's base symbol of the token at i
BaseOf(u, i) == (CHOOSE r \in GetSiUnitOutcomes(TokenAt(u, i)) : TRUE)[1]

RECURSIVE ExponentSum(_, _)
ExponentSum(u, todo) ==
    IF todo = {} THEN RatZero
    ELSE LET i == CHOOSE k \in todo : TRUE
         IN  RatAdd(TokenExponent(u, i), ExponentSum(u, todo \ {i}))

\* the exponent map keyed by base symbol, the exponents of the tokens of one
\* base symbol added
Dimension(u) ==
    [base \in {BaseOf(u, i) : i \in TokenStarts(u)} |->
        ExponentSum(u, {i \in TokenStarts(u) : BaseOf(u, i) = base})]

\* 3600^2 / 1000
Value3600Sq1000th ==
    [a \in Atoms |-> IF a = "3600" THEN <<2, 1>>
                     ELSE IF a = "10" THEN <<-3, 1>> ELSE RatZero]

----------------------------------------------------------------------------
(* Claims about a single call                                              *)

Validation(u) ==
    IF \E i \in 1..Len(u) :
           u[i] \notin Letters \cup Digits \cup {"/", "*", "^", "(", ")", "[", "]", " "}
        THEN NameErrorInvalidChar
    ELSE IF Cardinality({i \in 1..Len(u) : u[i] = "("})
              # Cardinality({i \in 1..Len(u) : u[i] = ")"})
        THEN NameErrorUnbalanced
    ELSE IF ~TokensKnown(u) THEN NameErrorUnknownUnit
    ELSE "passes"

ValidationErrors == {NameErrorInvalidChar, NameErrorUnbalanced, NameErrorUnknownUnit}

\* C4: the validation pass fails with the invalid-character error, else with
\* the unbalanced-brackets error, else with the unknown-unit error, else
\* passes; units_compatible and unit_conversion_factor apply it to the first
\* argument, then to the second, before any exponent is computed
C4_ValidationOrder ==
    call.op \in {"units_compatible", "unit_conversion_factor"} =>
        /\ \A i \in {1, 2} :
              _ensure_si_unit(call.args[i]) =
                  IF Validation(call.args[i]) = "passes" THEN Return(TRUE)
                  ELSE Raise(Validation(call.args[i]))
        /\ IF Validation(call.args[1]) # "passes"
              THEN call.out = Raise(Validation(call.args[1]))
           ELSE IF Validation(call.args[2]) # "passes"
              THEN call.out = Raise(Validation(call.args[2]))
           ELSE ~(Raised(call.out) /\ call.out.what \in ValidationErrors)

\* unit_conversion_factor("m^", "m((xyz#") raised the invalid-character error:
\* the second argument has all three defects and the first has no operand
\* for its "^"
C4_Witness ==
    /\ call.op = "unit_conversion_factor"
    /\ call.args = << <<"m","^">>, <<"m","(","(","x","y","z","#">> >>
    /\ call.out = Raise(NameErrorInvalidChar)

\* C6: units_compatible returns whether the two strings have the same
\* exponent map keyed by base symbol, the exponents of the tokens of one base
\* symbol added: "km*m" is compatible with "m^2", "km/m" is not with "1/m"
C6_CompatibleIffSameDimension ==
    ( /\ call.op = "units_compatible"
      /\ FollowsGrammar(call.args[1]) /\ FollowsGrammar(call.args[2])
      /\ TokensOccurOnce(call.args[1]) /\ TokensOccurOnce(call.args[2])
      /\ TokensKnown(call.args[1]) /\ TokensKnown(call.args[2]) )
    => call.out = Return(Dimension(call.args[1]) = Dimension(call.args[2]))

\* a "^" that no digit follows, or a "/" that no token, number or group follows
LacksOperand(u) ==
    \E i \in 1..Len(u) :
        \/ u[i] = "^" /\ (i = Len(u) \/ ~IsDigit(u[i + 1]))
        \/ u[i] = "/" /\ (i = Len(u) \/ ~(IsLetter(u[i + 1]) \/ IsDigit(u[i + 1])
                                           \/ u[i + 1] = "("))

\* C7: a call with an argument of allowed characters and known tokens in
\* which a "^" or a "/" has no valid operand raises an error
C7_MissingOperandRaises ==
    ( /\ call.op \in {"units_compatible", "unit_conversion_factor"}
      /\ \E i \in {1, 2} :
            /\ LacksOperand(call.args[i])
            /\ \A k \in 1..Len(call.args[i]) : call.args[i][k] \in AllowedChars
            /\ TokensKnown(call.args[i]) )
    => Raised(call.out)

----------------------------------------------------------------------------
(* Claim about token resolution                                            *)

\* the symbols of UNITS_SI that end the token with nothing or a prefix of
\* PREFIX_SI before them
SuffixSymbols(unit) ==
    {unit_si \in UNITS_SI :
        \E k \in 0..Len(unit) :
            /\ SubSeq(unit, k + 1, Len(unit)) = unit_si
            /\ k = 0 \/ SubSeq(unit, 1, k) \in DOMAIN PREFIX_SI}

\* C10: at most one symbol of UNITS_SI matches a token as a suffix with an
\* empty or prefix remainder, so _get_si_unit has one result whatever the
\* iteration order of UNITS_SI; a non-SI name is returned from NON_SI_MAP only
\* when no SI symbol matches, and none matches any key of NON_SI_MAP
C10_ResolutionDeterministic ==
    call.op = "_get_si_unit" =>
        /\ Cardinality(SuffixSymbols(call.args)) <= 1
        /\ Cardinality(call.out) = 1
        /\ \A r \in call.out : r = _get_si_unit(call.args)
        /\ SuffixSymbols(call.args) # {} =>
              \A r \in call.out : r[1] \in SuffixSymbols(call.args)
        /\ call.args \in DOMAIN NON_SI_MAP =>
              /\ SuffixSymbols(call.args) = {}
              /\ call.out = {NON_SI_MAP[call.args]}
        /\ (SuffixSymbols(call.args) = {} /\ call.args \notin DOMAIN NON_SI_MAP) =>
              call.out = {None}

\* _get_si_unit("mol") returned ("mol", 1.0), "m" and "l" notwithstanding,
\* and _get_si_unit("h") the hour of NON_SI_MAP
C10_Witness ==
    /\ call.op = "_get_si_unit"
    /\ \/ call.args = <<"m","o","l">> /\ call.out = {<<call.args, ValOne>>}
       \/ call.args = <<"h">> /\ call.out = {<< <<"s">>, Atom("3600")>>}

----------------------------------------------------------------------------
(* Claims about sequences of calls                                         *)

\* a unit string that follows the grammar and whose tokens are all known
ValidUnit(u) == FollowsGrammar(u) /\ TokensKnown(u)

\* units_compatible returns True for the two strings, in both orders
Compatible(a, b) ==
    /\ units_compatible(a, b) = Return(TRUE)
    /\ units_compatible(b, a) = Return(TRUE)

\* what unit_conversion_factor(a, b) returns or raises in the present cache
FactorNow(a, b) == unit_conversion_factor(cache, a, b).out

\* no exponent of u is a fraction with the denominator zero
NonzeroDenominators(u) ==
    \A i \in 1..Len(u) : u[i] = "^" =>
        LET e1 == DigitRunEnd(u, i + 1)
            e2 == DigitRunEnd(u, e1 + 2)
        IN  (e1 > i /\ e1 < Len(u) /\ u[e1 + 1] = "/" /\ e2 >= e1 + 2)
                => NumVal(Slice(u, e1 + 2, e2)) # 0

\* units_compatible(u, u) is true and unit_conversion_factor(u, u) is 1.0
SelfConversionIsOne(u) ==
    /\ units_compatible(u, u) = Return(TRUE)
    /\ FactorNow(u, u) = Return(ValOne)

\* a call on (u, u) with u valid found units_compatible true or the factor 1.0
SelfCallIsOne(Admitted(_)) ==
    ( /\ call.args # << >> /\ call.args[1] = call.args[2]
      /\ ValidUnit(call.args[1]) /\ Admitted(call.args[1]) ) =>
        /\ call.op = "units_compatible" => call.out = Return(TRUE)
        /\ call.op = "unit_conversion_factor" => call.out = Return(ValOne)

\* the factor a call returned from a to c is, for every b mutually compatible
\* with a and c, the factor from a to b times the factor from b to c, and the
\* factors from a to b and from b to a multiply to 1
FactorsCompose ==
    (call.op = "unit_conversion_factor" /\ ~Raised(call.out)) =>
        \A b \in Units :
            ( /\ Compatible(call.args[1], b)
              /\ Compatible(b, call.args[2])
              /\ Compatible(call.args[1], call.args[2]) )
            => /\ ~Raised(FactorNow(call.args[1], b))
               /\ ~Raised(FactorNow(b, call.args[2]))
               /\ call.out.val = ValMul(FactorNow(call.args[1], b).val,
                                        FactorNow(b, call.args[2]).val)
               /\ ValMul(FactorNow(call.args[1], b).val,
                         FactorNow(b, call.args[1]).val) = ValOne

C3_DifferentDimensionsIncompatible ==
    /\ ( /\ call.op \in {"units_compatible", "unit_conversion_factor"}
         /\ ValidUnit(call.args[1]) /\ ValidUnit(call.args[2])
         /\ Dimension(call.args[1]) # Dimension(call.args[2]) )
       => call.out = IF call.op = "units_compatible" THEN Return(FALSE)
                     ELSE Raise(NameErrorIncompatible)
    /\ \A key \in DOMAIN cache :
          (ValidUnit(key[1]) /\ ValidUnit(key[2])) =>
              Dimension(key[1]) = Dimension(key[2])

\* every entry of the cache stays, with its value
EntriesKept ==
    \A key \in DOMAIN cache : key \in DOMAIN cache' /\ cache'[key] = cache[key]

\* C5: once unit_conversion_factor(s, t) has returned a value the entry of
\* (s, t) is never overwritten or removed and every later call returns the
\* same value, from the cache or recomputed; every cached value is the value
\* an uncached computation of its key yields
C5_CacheIdempotent ==
    /\ [](\A key \in DOMAIN cache : Return(cache[key]) = ComputeFactor(key[1], key[2]))
    /\ []((call.op = "unit_conversion_factor" /\ ~Raised(call.out)) =>
             /\ call.args \in DOMAIN cache
             /\ cache[call.args] = call.out.val
             /\ call.out = ComputeFactor(call.args[1], call.args[2]))
    /\ [][ /\ EntriesKept
           /\ (call'.op = "unit_conversion_factor" /\ call'.args \in DOMAIN cache) =>
                 call'.out = Return(cache[call'.args]) ]_vars

\* a second unit_conversion_factor("km", "m") was served from the cache
C5_Witness ==
    /\ call.op = "unit_conversion_factor"
    /\ call.hit
    /\ call.args = <<U_km, U_m>>
    /\ call.out = Return(Pow10(3))
    /\ cache[call.args] = Pow10(3)

\* C8: units_compatible never changes the cache, a unit_conversion_factor
\* that raises leaves it as it was, and a successful
\* unit_conversion_factor(s, t) changes no entry but that of (s, t)
C8_OnlyOwnKeyInserted ==
    [][ /\ call'.op = "units_compatible" => cache' = cache
        /\ (call'.op = "unit_conversion_factor" /\ Raised(call'.out)) => cache' = cache
        /\ (call'.op = "unit_conversion_factor" /\ ~Raised(call'.out)) =>
              /\ DOMAIN cache' = DOMAIN cache \cup {call'.args}
              /\ \A key \in DOMAIN cache \ {call'.args} : cache'[key] = cache[key]
      ]_vars

\* two successful calls on different keys left two entries, and a call that
\* raised left an entry in place
C8_Witness ==
    \/ /\ Cardinality(DOMAIN cache) = 2
       /\ call.op = "unit_conversion_factor"
       /\ ~call.hit
    \/ /\ Cardinality(DOMAIN cache) = 1
       /\ call.op = "unit_conversion_factor"
       /\ Raised(call.out)

----------------------------------------------------------------------------
(* Claim about concurrent calls                                            *)

\* C9: with the lookup, the computation, the membership test and the
\* insertion each one atomic step, calls that race on one missing key return
\* the same value and the cache holds that value for the key, and no step
\* loses or alters an entry, whichever key it belongs to
C9_RacesAreBenign ==
    /\ [](\A t \in Threads :
            (pc[t] = "returned" /\ ~Raised(ret[t])) =>
                /\ args[t] \in DOMAIN cache
                /\ cache[args[t]] = ret[t].val
                /\ ret[t] = ComputeFactor(args[t][1], args[t][2])
                /\ \A o \in Threads :
                      (pc[o] = "returned" /\ args[o] = args[t]) => ret[o] = ret[t])
    /\ [][EntriesKept]_vars

\* both calls missed the same key; one has inserted it and returned its
\* value, the other is about to insert it again
C9_Witness ==
    /\ pc["t1"] = "returned"
    /\ pc["t2"] = "insert"
    /\ args["t1"] = args["t2"]
    /\ ~Raised(ret["t1"])
    /\ ncalls = 2
    /\ cache[args["t1"]] = ret["t1"].val

============================================================================
